---------------------------- MODULE Spec2Model ----------------------------
(***************************************************************************)
(* Browser-side view scripts of the learning platform: the quiz player     *)
(* (src/unnamed/part_000), the chat widget (src/unnamed/part_001), the     *)
(* interview flow and the onboarding wizard (src/static/interview.js) and  *)
(* the resources page (src/static/resources_script.js).                    *)
(*                                                                         *)
(* One browser page view is modelled at a time: `page` is fixed by Init.   *)
(* A handler runs to its first await in one step (the event loop), and     *)
(* the continuation after `await fetch(..)` / `await res.json()` is a      *)
(* second step that picks the response the backend gave.                   *)
(*                                                                         *)
(* Strings are sequences of tokens: a token is one character, or a word    *)
(* that no operation of the scripts looks into.                            *)
(***************************************************************************)
EXTENDS Integers, Sequences, FiniteSets, TLC

VARIABLES
    page,                   \* the page this view shows
    net,                    \* requests in flight: [h, id, body, bubble]
    nsent,                  \* per handler, the number of requests issued
    lastEvent,              \* history: the last handler step that ran
    \* quiz page (part_000)
    quizData,               \* let quizData = []
    questionsWrapper,       \* #questions-wrapper content
    checked,                \* per rendered question, the checked radio (0: none)
    submitQuizBtnHidden,    \* #submitQuizBtn has class hidden
    quizContainerHidden,    \* #quiz-container has class hidden
    resultsContainerHidden, \* #results-container has class hidden
    resultsContainer,       \* #results-container content
    \* chat page (part_001)
    userInput,              \* #user-input value
    chatBox,                \* #chat-box children: [sender, text]
    \* interview page (interview.js, first listener)
    interviewHidden,        \* interview-step1..3 have class hidden
    questionResultDiv,      \* #questionResult content
    feedbackResultDiv,      \* #feedbackResult content
    currentQuestion,        \* let currentQuestion = ''
    answerInput,            \* #answerInput value
    \* onboarding page (interview.js, second listener)
    onboardHidden,          \* step1..3 have class hidden
    userChoices,            \* { careerPath, skillLevel }
    roadmapResultDiv,       \* #roadmapResult content
    \* resources page (resources_script.js)
    resourcesHidden,        \* hidden class of list, takeQuizBtn, quizSection, analysisSection
    charts                  \* number of Chart objects constructed

vars == << page, net, nsent, lastEvent,
           quizData, questionsWrapper, checked, submitQuizBtnHidden,
           quizContainerHidden, resultsContainerHidden, resultsContainer,
           userInput, chatBox,
           interviewHidden, questionResultDiv, feedbackResultDiv,
           currentQuestion, answerInput,
           onboardHidden, userChoices, roadmapResultDiv,
           resourcesHidden, charts >>

quizVars      == << quizData, questionsWrapper, checked, submitQuizBtnHidden,
                    quizContainerHidden, resultsContainerHidden, resultsContainer >>
chatVars      == << userInput, chatBox >>
interviewVars == << interviewHidden, questionResultDiv, feedbackResultDiv,
                    currentQuestion, answerInput >>
onboardVars   == << onboardHidden, userChoices, roadmapResultDiv >>
resourceVars  == << resourcesHidden, charts >>

-----------------------------------------------------------------------------
(* Bounds of the model *)

MaxQuestions == 3      \* questions in a generated quiz
MaxRequests  == 2      \* requests the chat or the question handler issues in a page view
MaxFollowUps == 1      \* requests the feedback or the roadmap handler issues
MaxCards     == 2      \* items of a roadmap array

(* Program constants *)

XpPerCorrect == 50

Pages    == {"quiz", "chat", "interview", "onboarding", "resources"}
Handlers == {"quiz", "chat", "question", "feedback", "roadmap"}

-----------------------------------------------------------------------------
(* Strings *)

Quote     == "\""
QuotEntity == "&quot;"
Space     == " "

Undefined == << "undefined" >>    \* what a template literal prints for undefined
Empty     == << >>


RECURSIVE TrimLeft(_)
\* String.prototype.trim, leading part: drops the white space in front
TrimLeft(s) ==
    IF s = Empty THEN Empty
    ELSE IF Head(s) = Space THEN TrimLeft(Tail(s)) ELSE s

RECURSIVE TrimRight(_)
\* String.prototype.trim, trailing part
TrimRight(s) ==
    IF s = Empty THEN Empty
    ELSE IF s[Len(s)] = Space THEN TrimRight(SubSeq(s, 1, Len(s) - 1)) ELSE s

\* a variant that keeps the white space
NoTrim(s) == s

\* userInput.value.trim()
Trim(s) == TrimRight(TrimLeft(s))

-----------------------------------------------------------------------------
(* Responses of the backend.  status: "reject" (fetch rejects), "ok"       *)
(* (response.ok), "error" (a non-2xx status).  json: the body parses.      *)
(* has: the parsed body carries the field the handler reads; val: its      *)
(* value.                                                                  *)

Response(status, json, has, val) ==
    [status |-> status, json |-> json, has |-> has, val |-> val]

ResponsesOf(Vals, none) ==
    {Response("reject", FALSE, FALSE, none)}
    \cup {Response(s, FALSE, FALSE, none) : s \in {"ok", "error"}}
    \cup {Response(s, TRUE, FALSE, none) : s \in {"ok", "error"}}
    \cup {Response(s, TRUE, TRUE, v) : s \in {"ok", "error"}, v \in Vals}

\* replies, questions and feedback texts; the empty string is falsy in JS
Texts == {Empty, <<"t1">>, <<"t2">>}
TextResponses == ResponsesOf(Texts, Empty)

NoEvent == [type |-> "load", h |-> "none", id |-> 0,
            resp |-> Response("none", FALSE, FALSE, Empty)]

Event(type, h, id, resp) == [type |-> type, h |-> h, id |-> id, resp |-> resp]

NoneSent == [h \in Handlers |-> 0]

-----------------------------------------------------------------------------
(* Quiz page: src/unnamed/part_000 *)

\* questions the quiz generator may return
QuestionPool ==
    { [options |-> << <<"a">>, <<"A">> >>,             answer |-> <<"a">>],
      [options |-> << <<Quote>>, <<QuotEntity>> >>,    answer |-> <<Quote>>],
      [options |-> << <<QuotEntity>>, <<Quote, "a", Quote>> >>, answer |-> <<QuotEntity>>] }

RECURSIVE SeqsUpTo(_, _)
SeqsUpTo(S, n) ==
    IF n = 0 THEN {<< >>}
    ELSE LET shorter == SeqsUpTo(S, n - 1)
         IN  shorter \cup {Append(q, x) : q \in {t \in shorter : Len(t) = n - 1}, x \in S}

\* data.quiz: an array of questions, or a truthy value that is no array
QuizValues ==
    {[array |-> TRUE, items |-> q] : q \in SeqsUpTo(QuestionPool, MaxQuestions)}
    \cup {[array |-> FALSE, items |-> << >>]}

NoQuiz == [array |-> TRUE, items |-> << >>]

QuizResponses == ResponsesOf(QuizValues, NoQuiz)

\* a variant without the g flag: only the first quote is replaced
SanitizeFirstOnly(option) ==
    [i \in 1..Len(option) |->
        IF option[i] = Quote /\ (\A k \in 1..(i - 1) : option[k] # Quote)
        THEN QuotEntity ELSE option[i]]

\* option.replace(/"/g, '&quot;')
Sanitize(option) ==
    [i \in 1..Len(option) |-> IF option[i] = Quote THEN QuotEntity ELSE option[i]]

RECURSIVE UpToQuote(_)
\* value="...": the attribute value the HTML parser reads ends at the first raw quote
UpToQuote(s) ==
    IF s = Empty THEN Empty
    ELSE IF Head(s) = Quote THEN Empty
    ELSE << Head(s) >> \o UpToQuote(Tail(s))

\* the HTML parser decodes the character references of an attribute value
DecodeEntities(s) ==
    [i \in 1..Len(s) |-> IF s[i] = QuotEntity THEN Quote ELSE s[i]]

\* the value of the radio input that displayQuiz renders for an option
RadioValue(option) == DecodeEntities(UpToQuote(Sanitize(option)))

\* value="${sanitizedOption}": the text displayQuiz puts between the quotes
AttributeText(option) == Sanitize(option)

\* displayQuiz: one group of radio inputs per question; attrs holds the markup
\* text of each value attribute, radios the value the parsed input carries
RenderQuestions(items) ==
    [kind |-> "quiz",
     attrs  |-> [i \in 1..Len(items) |->
                    [j \in 1..Len(items[i].options) |-> AttributeText(items[i].options[j])]],
     radios |-> [i \in 1..Len(items) |->
                    [j \in 1..Len(items[i].options) |-> RadioValue(items[i].options[j])]]]

WrapperInitial == [kind |-> "initial", attrs |-> << >>, radios |-> << >>]
WrapperError   == [kind |-> "error",   attrs |-> << >>, radios |-> << >>]

\* a variant without the check of response.ok
QuizLoadsAnyStatus(resp) == resp.json /\ resp.has /\ resp.val.array

\* the decision of loadQuiz's try block: render, or fall into the catch
QuizLoads(resp) ==
    /\ resp.status = "ok"          \* fetch resolved and response.ok
    /\ resp.json                   \* await response.json()
    /\ resp.has                    \* if (data.quiz)
    /\ resp.val.array              \* quizData.forEach exists (else TypeError, caught)

\* if (data.quiz) { quizData = data.quiz; ...: the assignment precedes displayQuiz
QuizAssigns(resp) == resp.status = "ok" /\ resp.json /\ resp.has

\* continuation of loadQuiz after the awaits
LoadQuizResolve(req, resp) ==
    /\ quizData' = IF QuizAssigns(resp) THEN resp.val ELSE quizData
    /\ IF QuizLoads(resp)
       THEN /\ questionsWrapper' = RenderQuestions(resp.val.items)
            /\ checked' = [i \in 1..Len(resp.val.items) |-> 0]
            /\ submitQuizBtnHidden' = FALSE
       ELSE /\ questionsWrapper' = WrapperError
            /\ checked' = << >>
            /\ UNCHANGED submitQuizBtnHidden
    /\ UNCHANGED << quizContainerHidden, resultsContainerHidden, resultsContainer >>

\* a variant that counts every answered question
IsCorrectAnyChecked(q, radios, chk) == chk # 0

\* selectedOption && selectedOption.value === q.answer
IsCorrect(q, radios, chk) ==
    /\ chk # 0
    /\ radios[chk] = q.answer

RECURSIVE ScoreFrom(_, _, _, _)
\* quizData.forEach((q, index) => ... score++), from question `index` on
ScoreFrom(items, radios, chk, index) ==
    IF index > Len(items) THEN 0
    ELSE (IF IsCorrect(items[index], radios[index], chk[index]) THEN 1 ELSE 0)
         + ScoreFrom(items, radios, chk, index + 1)

Num(n)   == [kind |-> "num", num |-> n]
NaN      == [kind |-> "nan", num |-> 0]
Infinity == [kind |-> "inf", num |-> 0]

\* Math.round((score / totalQuestions) * 100): x / 0 is NaN or Infinity,
\* Math.round(x) is floor(x + 0.5)
Percentage(score, totalQuestions) ==
    IF totalQuestions = 0
    THEN (IF score = 0 THEN NaN ELSE Infinity)
    ELSE Num((200 * score + totalQuestions) \div (2 * totalQuestions))

\* const xpGained = score * 50
XpGained(score) == score * XpPerCorrect

NoResults == [kind |-> "initial", percentage |-> Num(0), xpGained |-> 0,
              score |-> 0, totalQuestions |-> 0]

\* showResults(score, totalQuestions)
ShowResults(score, totalQuestions) ==
    /\ quizContainerHidden' = TRUE
    /\ resultsContainerHidden' = FALSE
    /\ resultsContainer' = [kind |-> "results",
                            percentage |-> Percentage(score, totalQuestions),
                            xpGained |-> XpGained(score),
                            score |-> score,
                            totalQuestions |-> totalQuestions]

\* submitQuizBtn click handler; quizData.forEach throws when quizData is no array
SubmitQuiz ==
    /\ page = "quiz"
    /\ IF quizData.array
       THEN ShowResults(ScoreFrom(quizData.items, questionsWrapper.radios, checked, 1),
                        Len(quizData.items))
       ELSE UNCHANGED << quizContainerHidden, resultsContainerHidden, resultsContainer >>
    /\ lastEvent' = Event("trigger", "submit", 0, NoEvent.resp)
    /\ UNCHANGED << quizData, questionsWrapper, checked, submitQuizBtnHidden >>
    /\ UNCHANGED << page, net, nsent, chatVars, interviewVars, onboardVars, resourceVars >>

\* the user checks radio j of question i (a radio group holds one checked input)
SelectOption(i, j) ==
    /\ page = "quiz"
    /\ i \in DOMAIN questionsWrapper.radios
    /\ j \in DOMAIN questionsWrapper.radios[i]
    /\ checked[i] # j
    /\ checked' = [checked EXCEPT ![i] = j]
    /\ UNCHANGED << quizData, questionsWrapper, submitQuizBtnHidden,
                    quizContainerHidden, resultsContainerHidden, resultsContainer >>
    /\ UNCHANGED << page, net, nsent, lastEvent, chatVars, interviewVars,
                    onboardVars, resourceVars >>

\* the response of /generate-quiz arrives
QuizResponse ==
    /\ page = "quiz"
    /\ \E req \in net, resp \in QuizResponses :
          /\ req.h = "quiz"
          /\ LoadQuizResolve(req, resp)
          /\ net' = net \ {req}
          /\ lastEvent' = Event("resolve", "quiz", req.id, resp)
    /\ UNCHANGED << page, nsent, chatVars, interviewVars, onboardVars, resourceVars >>

-----------------------------------------------------------------------------
(* Requests *)

Request(h, id, body, bubble) == [h |-> h, id |-> id, body |-> body, bubble |-> bubble]

\* the requests a handler issues within the model's bounds
Limit(h) == IF h \in {"feedback", "roadmap"} THEN MaxFollowUps ELSE MaxRequests

\* a variant that issues the request twice
SendTwice(h, body, bubble) ==
    /\ nsent[h] + 1 < Limit(h)
    /\ net' = net \cup {Request(h, nsent[h] + 1, body, bubble),
                         Request(h, nsent[h] + 2, body, bubble)}
    /\ nsent' = [nsent EXCEPT ![h] = nsent[h] + 2]

\* fetch(...): one more request of handler h is in flight
Send(h, body, bubble) ==
    /\ nsent[h] < Limit(h)
    /\ net' = net \cup {Request(h, nsent[h] + 1, body, bubble)}
    /\ nsent' = [nsent EXCEPT ![h] = nsent[h] + 1]

-----------------------------------------------------------------------------
(* Chat page: src/unnamed/part_001, lines 1-33 *)

Thinking     == << "Thinking..." >>
ChatGenError == << "Error generating response." >>
ChatNetError == << "Network error!" >>

\* what the user may have typed into #user-input
InputValues == { Empty, << Space >>, << "h" >>, << Space, "k", Space >> }

\* appendMessage(sender, text)
AppendMessage(box, sender, text) == Append(box, [sender |-> sender, text |-> text])

\* if (!userMessage) return
Rejected(userMessage) == userMessage = Empty

\* the text the continuation of sendMessage writes
ChatContent(resp) ==
    IF resp.status = "reject" \/ ~resp.json
    THEN ChatNetError                          \* catch (err)
    ELSE IF resp.has /\ resp.val # Empty       \* data.reply || "..."
         THEN resp.val
         ELSE ChatGenError

\* a variant that writes into the placeholder the same call appended
ChatTargetOwnBubble(box, req) == req.bubble

\* chatBox.lastChild: the bubble the continuation writes into
ChatTarget(box, req) == Len(box)

\* sendMessage(), up to the await
SendMessage ==
    /\ page = "chat"
    /\ LET userMessage == Trim(userInput)
       IN  IF Rejected(userMessage)
           THEN /\ lastEvent' = Event("noop", "chat", 0, NoEvent.resp)
                /\ UNCHANGED << net, nsent, userInput, chatBox >>
           ELSE /\ chatBox' = AppendMessage(AppendMessage(chatBox, "user", userMessage),
                                            "ai", Thinking)
                /\ userInput' = Empty
                /\ Send("chat", [prompt |-> userMessage], Len(chatBox) + 2)
                /\ lastEvent' = Event("trigger", "chat", nsent["chat"] + 1, NoEvent.resp)
    /\ UNCHANGED << page, quizVars, interviewVars, onboardVars, resourceVars >>

\* the user edits #user-input
TypeInput(v) ==
    /\ page = "chat"
    /\ v # userInput
    /\ userInput' = v
    /\ UNCHANGED << page, net, nsent, lastEvent, chatBox,
                    quizVars, interviewVars, onboardVars, resourceVars >>

\* sendMessage(), after the awaits
ChatResponse ==
    /\ page = "chat"
    /\ \E req \in net, resp \in TextResponses :
          /\ req.h = "chat"
          /\ chatBox' = [chatBox EXCEPT ![ChatTarget(chatBox, req)].text = ChatContent(resp)]
          /\ net' = net \ {req}
          /\ lastEvent' = Event("resolve", "chat", req.id, resp)
    /\ UNCHANGED << page, nsent, userInput, quizVars, interviewVars, onboardVars,
                    resourceVars >>

-----------------------------------------------------------------------------
(* Interview page: src/static/interview.js, lines 10-64 *)

QuestionLoading == << "Getting a question from the AI..." >>
QuestionError   == << "Error getting question. Please try again." >>
FeedbackLoading == << "AI is analyzing your answer..." >>
FeedbackError   == << "Error getting feedback. Please try again." >>

\* a variant that shows the next step and leaves the current one visible
AdvanceWithoutHiding(hidden, from, to) == [hidden EXCEPT ![to] = FALSE]

\* stepN.classList.add('hidden'); stepM.classList.remove('hidden')
Advance(hidden, from, to) == [hidden EXCEPT ![from] = TRUE, ![to] = FALSE]

\* a JS value that is a string or undefined
Defined(str) == [defined |-> TRUE, str |-> str]
Undef        == [defined |-> FALSE, str |-> Empty]

\* data.<field> of a parsed body
Field(resp) == IF resp.has THEN Defined(resp.val) ELSE Undef

\* `${value}` in a template literal
Interpolate(value) == IF value.defined THEN value.str ELSE Undefined

AnswerValues == { Empty, << "ans" >> }

\* const data = await response.json(); if (response.ok) ... : the try block succeeds
TextAccepted(resp) ==
    /\ resp.status # "reject"
    /\ resp.json
    /\ resp.status = "ok"

\* getQuestionBtn click handler, up to the await
GetQuestionClick ==
    /\ page = "interview"
    /\ questionResultDiv' = QuestionLoading
    /\ interviewHidden' = Advance(interviewHidden, 1, 2)
    /\ Send("question", [none |-> TRUE], 0)
    /\ lastEvent' = Event("trigger", "question", nsent["question"] + 1, NoEvent.resp)
    /\ UNCHANGED << feedbackResultDiv, currentQuestion, answerInput >>
    /\ UNCHANGED << page, quizVars, chatVars, onboardVars, resourceVars >>

\* getQuestionBtn click handler, after the awaits
QuestionResponse ==
    /\ page = "interview"
    /\ \E req \in net, resp \in TextResponses :
          /\ req.h = "question"
          /\ IF TextAccepted(resp)
             THEN /\ currentQuestion' = Field(resp)
                  /\ questionResultDiv' = Interpolate(Field(resp))
             ELSE /\ questionResultDiv' = QuestionError
                  /\ UNCHANGED currentQuestion
          /\ net' = net \ {req}
          /\ lastEvent' = Event("resolve", "question", req.id, resp)
    /\ UNCHANGED << interviewHidden, feedbackResultDiv, answerInput >>
    /\ UNCHANGED << page, nsent, quizVars, chatVars, onboardVars, resourceVars >>

\* the user edits #answerInput
TypeAnswer(v) ==
    /\ page = "interview"
    /\ v # answerInput
    /\ answerInput' = v
    /\ UNCHANGED << interviewHidden, questionResultDiv, feedbackResultDiv, currentQuestion >>
    /\ UNCHANGED << page, net, nsent, lastEvent, quizVars, chatVars, onboardVars,
                    resourceVars >>

\* getFeedbackBtn click handler, up to the await
GetFeedbackClick ==
    /\ page = "interview"
    /\ interviewHidden' = Advance(interviewHidden, 2, 3)
    /\ feedbackResultDiv' = FeedbackLoading
    /\ Send("feedback", [question |-> currentQuestion, answer |-> answerInput], 0)
    /\ lastEvent' = Event("trigger", "feedback", nsent["feedback"] + 1, NoEvent.resp)
    /\ UNCHANGED << questionResultDiv, currentQuestion, answerInput >>
    /\ UNCHANGED << page, quizVars, chatVars, onboardVars, resourceVars >>

\* getFeedbackBtn click handler, after the awaits
FeedbackResponse ==
    /\ page = "interview"
    /\ \E req \in net, resp \in TextResponses :
          /\ req.h = "feedback"
          /\ feedbackResultDiv' = IF TextAccepted(resp)
                                  THEN Interpolate(Field(resp))
                                  ELSE FeedbackError
          /\ net' = net \ {req}
          /\ lastEvent' = Event("resolve", "feedback", req.id, resp)
    /\ UNCHANGED << interviewHidden, questionResultDiv, currentQuestion, answerInput >>
    /\ UNCHANGED << page, nsent, quizVars, chatVars, onboardVars, resourceVars >>

-----------------------------------------------------------------------------
(* Onboarding page: src/static/interview.js, lines 66-149 *)

CareerValues == { "career1", "career2" }
SkillValues  == { "skill1", "skill2" }

CardPool == { [week |-> << "week1" >>, topics |-> << "topicsA" >>],
              [week |-> << "week2" >>, topics |-> << "topicsB" >>] }

\* data.roadmap: an array of items, or one item object
RoadmapValues ==
    {[array |-> TRUE, items |-> q, obj |-> << >>] : q \in SeqsUpTo(CardPool, MaxCards)}
    \cup {[array |-> FALSE, items |-> << >>, obj |-> x] : x \in CardPool}

NoRoadmap == [array |-> TRUE, items |-> << >>, obj |-> << >>]

RoadmapResponses == ResponsesOf(RoadmapValues, NoRoadmap)

RoadmapInitial == [kind |-> "initial", cards |-> << >>]
RoadmapLoading == [kind |-> "loading", cards |-> << >>]
RoadmapError   == [kind |-> "error",   cards |-> << >>]

\* a variant that iterates data.roadmap as it came, with no wrapping of an object
RoadmapItemsAsGiven(roadmap) == roadmap.items

\* Array.isArray(data.roadmap) ? data.roadmap : [data.roadmap]
RoadmapItems(roadmap) == IF roadmap.array THEN roadmap.items ELSE << roadmap.obj >>

\* roadmapItems.forEach(item => ...): one card per item
RenderCards(items) ==
    [kind |-> "cards",
     cards |-> [i \in 1..Len(items) |-> [week |-> items[i].week, topics |-> items[i].topics]]]

\* the try block of fetchRoadmap renders
RoadmapAccepted(resp) ==
    /\ resp.status = "ok"        \* fetch resolved, response.ok
    /\ resp.json                 \* await response.json()
    /\ resp.has                  \* if (data.roadmap)

\* step1 .option-btn click handler
CareerClick(v) ==
    /\ page = "onboarding"
    /\ userChoices' = [userChoices EXCEPT !.careerPath = v]
    /\ onboardHidden' = Advance(onboardHidden, 1, 2)
    /\ lastEvent' = Event("trigger", "career", 0, NoEvent.resp)
    /\ UNCHANGED << roadmapResultDiv, net, nsent >>
    /\ UNCHANGED << page, quizVars, chatVars, interviewVars, resourceVars >>

\* step2 .option-btn click handler, with fetchRoadmap() up to the await
SkillClick(v) ==
    /\ page = "onboarding"
    /\ userChoices' = [userChoices EXCEPT !.skillLevel = v]
    /\ onboardHidden' = Advance(onboardHidden, 2, 3)
    /\ roadmapResultDiv' = RoadmapLoading
    /\ Send("roadmap", userChoices', 0)
    /\ lastEvent' = Event("trigger", "roadmap", nsent["roadmap"] + 1, NoEvent.resp)
    /\ UNCHANGED << page, quizVars, chatVars, interviewVars, resourceVars >>

\* fetchRoadmap(), after the awaits
RoadmapResponse ==
    /\ page = "onboarding"
    /\ \E req \in net, resp \in RoadmapResponses :
          /\ req.h = "roadmap"
          /\ roadmapResultDiv' = IF RoadmapAccepted(resp)
                                 THEN RenderCards(RoadmapItems(resp.val))
                                 ELSE RoadmapError
          /\ net' = net \ {req}
          /\ lastEvent' = Event("resolve", "roadmap", req.id, resp)
    /\ UNCHANGED << onboardHidden, userChoices >>
    /\ UNCHANGED << page, nsent, quizVars, chatVars, interviewVars, resourceVars >>

-----------------------------------------------------------------------------
(* Resources page: src/static/resources_script.js *)

\* takeQuizBtn click handler
TakeQuizClick ==
    /\ page = "resources"
    /\ resourcesHidden' = [resourcesHidden EXCEPT !.resourceList = TRUE,
                                                  !.takeQuizBtn = TRUE,
                                                  !.quizSection = FALSE]
    /\ lastEvent' = Event("trigger", "takeQuiz", 0, NoEvent.resp)
    /\ UNCHANGED << charts, page, net, nsent, quizVars, chatVars, interviewVars,
                    onboardVars >>

\* submitQuizBtn click handler of the resources page: createScoreChart(),
\* createProgressChart()
SubmitResourcesClick ==
    /\ page = "resources"
    /\ charts + 2 <= 2 * MaxRequests
    /\ resourcesHidden' = [resourcesHidden EXCEPT !.quizSection = TRUE,
                                                  !.analysisSection = FALSE]
    /\ charts' = charts + 2
    /\ lastEvent' = Event("trigger", "analysis", 0, NoEvent.resp)
    /\ UNCHANGED << page, net, nsent, quizVars, chatVars, interviewVars, onboardVars >>

-----------------------------------------------------------------------------
(* The page as the markup delivers it: the first phase of each flow is     *)
(* visible, the later ones and the quiz's submit button carry `hidden`.    *)

FirstPhaseOnly == << FALSE, TRUE, TRUE >>

ResourcesInitial == [resourceList |-> FALSE, takeQuizBtn |-> FALSE,
                     quizSection |-> TRUE, analysisSection |-> TRUE]

\* an element can be clicked when neither it nor the section holding it is hidden
Shown(el) ==
    CASE el = "submitQuizBtn"   -> ~submitQuizBtnHidden /\ ~quizContainerHidden
      [] el = "radio"           -> ~quizContainerHidden
      [] el = "getQuestionBtn"  -> ~interviewHidden[1]
      [] el = "answerInput"     -> ~interviewHidden[2]
      [] el = "getFeedbackBtn"  -> ~interviewHidden[2]
      [] el = "careerBtn"       -> ~onboardHidden[1]
      [] el = "skillBtn"        -> ~onboardHidden[2]
      [] el = "takeQuizBtn"     -> ~resourcesHidden.takeQuizBtn
      [] el = "submitResources" -> ~resourcesHidden.quizSection

Init ==
    /\ page \in Pages
    \* loadQuiz() runs to its await when the quiz page opens
    /\ net = IF page = "quiz"
             THEN {Request("quiz", 1, [topic |-> << "General" >>], 0)}
             ELSE {}
    /\ nsent = [NoneSent EXCEPT !["quiz"] = IF page = "quiz" THEN 1 ELSE 0]
    /\ lastEvent = NoEvent
    /\ quizData = NoQuiz
    /\ questionsWrapper = WrapperInitial
    /\ checked = << >>
    /\ submitQuizBtnHidden = TRUE
    /\ quizContainerHidden = FALSE
    /\ resultsContainerHidden = TRUE
    /\ resultsContainer = NoResults
    /\ userInput = Empty
    /\ chatBox = << >>
    /\ interviewHidden = FirstPhaseOnly
    /\ questionResultDiv = Empty
    /\ feedbackResultDiv = Empty
    /\ currentQuestion = Defined(Empty)
    /\ answerInput = Empty
    /\ onboardHidden = FirstPhaseOnly
    /\ userChoices = [careerPath |-> "", skillLevel |-> ""]
    /\ roadmapResultDiv = RoadmapInitial
    /\ resourcesHidden = ResourcesInitial
    /\ charts = 0

\* the events of a user who clicks what the page shows
Next ==
    \/ QuizResponse
    \/ \E i \in DOMAIN checked : \E j \in DOMAIN questionsWrapper.radios[i] :
          Shown("radio") /\ SelectOption(i, j)
    \/ Shown("submitQuizBtn") /\ SubmitQuiz
    \/ \E v \in InputValues : TypeInput(v)
    \/ SendMessage
    \/ ChatResponse
    \/ Shown("getQuestionBtn") /\ GetQuestionClick
    \/ QuestionResponse
    \/ \E v \in AnswerValues : Shown("answerInput") /\ TypeAnswer(v)
    \/ Shown("getFeedbackBtn") /\ GetFeedbackClick
    \/ FeedbackResponse
    \/ \E v \in CareerValues : Shown("careerBtn") /\ CareerClick(v)
    \/ \E v \in SkillValues : Shown("skillBtn") /\ SkillClick(v)
    \/ RoadmapResponse
    \/ Shown("takeQuizBtn") /\ TakeQuizClick
    \/ Shown("submitResources") /\ SubmitResourcesClick

Spec == Init /\ [][Next]_vars

\* the same handlers with events dispatched whatever the page shows
\* (a second trigger before the first request resolves)
NextAnyTrigger ==
    \/ QuizResponse
    \/ \E i \in DOMAIN checked : \E j \in DOMAIN questionsWrapper.radios[i] :
          SelectOption(i, j)
    \/ SubmitQuiz
    \/ \E v \in InputValues : TypeInput(v)
    \/ SendMessage
    \/ ChatResponse
    \/ GetQuestionClick
    \/ QuestionResponse
    \/ \E v \in AnswerValues : TypeAnswer(v)
    \/ GetFeedbackClick
    \/ FeedbackResponse
    \/ \E v \in CareerValues : CareerClick(v)
    \/ \E v \in SkillValues : SkillClick(v)
    \/ RoadmapResponse
    \/ TakeQuizClick
    \/ SubmitResourcesClick

SpecAnyTrigger == Init /\ [][NextAnyTrigger]_vars

-----------------------------------------------------------------------------
(* Claims *)

\* the questions whose checked radio carries a value equal to the stored answer
MatchingQuestions ==
    {i \in 1..Len(quizData.items) :
        /\ checked[i] # 0
        /\ questionsWrapper.radios[i][checked[i]] = quizData.items[i].answer}

\* a step in which the submit handler wrote the results
ShowResultsRan ==
    /\ resultsContainer'.kind = "results"
    /\ \/ resultsContainer' # resultsContainer
       \/ (lastEvent' # lastEvent /\ lastEvent'.h = "submit")

\* C1: the score the submit handler shows is the number of questions whose
\* checked option's value equals the stored answer; questions with no checked
\* option add nothing, and 0 <= score <= totalQuestions.
C1_ScoreCountsMatches ==
    [][ShowResultsRan =>
            /\ resultsContainer'.score = Cardinality(MatchingQuestions)
            /\ resultsContainer'.totalQuestions = Len(quizData.items)
            /\ 0 <= resultsContainer'.score
            /\ resultsContainer'.score <= resultsContainer'.totalQuestions
      ]_vars

\* a scored quiz of three questions: one matching, one answered wrongly (the
\* option differs from the answer only by case), one left unanswered
C1_Witness ==
    /\ resultsContainer.kind = "results"
    /\ resultsContainer.totalQuestions = 3
    /\ resultsContainer.score = 1
    /\ \E i \in 1..3 : checked[i] = 0
    /\ \E i \in 1..3 : /\ checked[i] # 0
                       /\ questionsWrapper.radios[i][checked[i]] = << "A" >>
                       /\ quizData.items[i].answer = << "a" >>

\* the render target of handler h shows one of the handler's fixed error messages
\* (for the chat: the bubble the continuation writes, the transcript's last one)
ShowsFixedError(h) ==
    CASE h = "quiz"     -> questionsWrapper = WrapperError
      [] h = "chat"     -> /\ chatBox # << >>
                           /\ chatBox[Len(chatBox)].text \in {ChatGenError, ChatNetError}
      [] h = "question" -> questionResultDiv = QuestionError
      [] h = "feedback" -> feedbackResultDiv = FeedbackError
      [] h = "roadmap"  -> roadmapResultDiv = RoadmapError

\* C2: a response whose body omits the expected field leaves the handler's
\* fixed error message in the render target, whatever the status.
C2_MissingFieldShowsError ==
    (/\ lastEvent.type = "resolve"
     /\ lastEvent.resp.json
     /\ ~lastEvent.resp.has)
    => ShowsFixedError(lastEvent.h)

\* C3: a response with a non-success status leaves the handler's fixed error
\* message in the render target, whatever its body holds.
C3_ErrorStatusShowsError ==
    (/\ lastEvent.type = "resolve"
     /\ lastEvent.resp.status = "error")
    => ShowsFixedError(lastEvent.h)

\* C4: with no option selected for any question, the submit shows score 0 and 0%.
C4_NothingSelectedScoresZero ==
    (/\ resultsContainer.kind = "results"
     /\ \A i \in DOMAIN checked : checked[i] = 0)
    => /\ resultsContainer.score = 0
       /\ resultsContainer.percentage = Num(0)

\* p is 100 * score / total rounded to the nearest integer, halves up
IsRoundedPercent(p, score, total) ==
    /\ 2 * total * p <= 200 * score + total
    /\ 200 * score + total < 2 * total * (p + 1)

\* C5: the displayed percentage is round(100 * score / total), an integer in
\* 0..100, and the displayed reward is score * 50.
C5_PercentageAndReward ==
    resultsContainer.kind = "results" =>
        /\ resultsContainer.percentage.kind = "num"
        /\ resultsContainer.percentage.num \in 0..100
        /\ IsRoundedPercent(resultsContainer.percentage.num,
                            resultsContainer.score, resultsContainer.totalQuestions)
        /\ resultsContainer.xpGained = 50 * resultsContainer.score


\* the render target of request req still shows the handler's pending state
\* (the quiz page sets none: its target shows what the markup had)
ShowsPending(req) ==
    CASE req.h = "quiz"     -> questionsWrapper = WrapperInitial
      [] req.h = "chat"     -> chatBox[req.bubble].text = Thinking
      [] req.h = "question" -> questionResultDiv = QuestionLoading
      [] req.h = "feedback" -> feedbackResultDiv = FeedbackLoading
      [] req.h = "roadmap"  -> roadmapResultDiv = RoadmapLoading

\* C6: while a request is in flight its render target shows the pending state,
\* never a result or an error of an earlier request of that handler.
C6_PendingWhileInFlight == \A req \in net : ShowsPending(req)

\* the requests of handler h in flight
InFlight(h) == {req \in net : req.h = h}

\* what the page shows in the target the claim names for handler h
Displayed(h) ==
    CASE h = "chat"     -> chatBox[Len(chatBox)].text
      [] h = "question" -> questionResultDiv

\* what a response amounts to on screen: its text when it is a success that
\* carries one, a fixed error message otherwise
ContentOf(h, resp) ==
    CASE h = "chat"     -> ChatContent(resp)
      [] h = "question" -> IF TextAccepted(resp) THEN Interpolate(Field(resp))
                           ELSE QuestionError

\* C7: after two triggers of the same action, once both requests have
\* resolved, the target shows the content of the response that resolved last,
\* in whichever order they resolved.
C7_LastResolvedWins ==
    \A h \in {"chat", "question"} :
        (/\ lastEvent.type = "resolve"
         /\ lastEvent.h = h
         /\ nsent[h] >= 2
         /\ InFlight(h) = {})
        => Displayed(h) = ContentOf(h, lastEvent.resp)

\* two messages sent before either reply; the second reply came first, the
\* first reply came last and is what the last bubble shows
C7_Witness ==
    /\ page = "chat"
    /\ lastEvent.type = "resolve"
    /\ lastEvent.id = 1
    /\ nsent["chat"] = 2
    /\ InFlight("chat") = {}
    /\ lastEvent.resp.status = "ok"
    /\ lastEvent.resp.val = << "t1" >>
    /\ chatBox[Len(chatBox)].text = << "t1" >>

\* the input holds nothing but white space
BlankInput == \A i \in DOMAIN userInput : userInput[i] = Space

\* a step in which sendMessage ran
SendMessageRan ==
    /\ lastEvent' # lastEvent
    /\ lastEvent'.h = "chat"
    /\ lastEvent'.type \in {"noop", "trigger"}

\* C8: sendMessage on an empty or white-space input sends no request, appends
\* no bubble and leaves the input and the transcript as they were.
C8_BlankInputIsNoOp ==
    [][(BlankInput /\ SendMessageRan) => UNCHANGED << net, nsent, chatBox, userInput >>]_vars

\* sendMessage ran on a white-space input after an earlier exchange
C8_Witness ==
    /\ page = "chat"
    /\ lastEvent.type = "noop"
    /\ userInput = << Space >>
    /\ Len(chatBox) = 2

\* the phase sections a page shows
VisiblePhases(pg) ==
    CASE pg = "interview"  -> {i \in 1..3 : ~interviewHidden[i]}
      [] pg = "onboarding" -> {i \in 1..3 : ~onboardHidden[i]}
      [] pg = "resources"  -> {x \in {"resourceList", "quizSection", "analysisSection"} :
                                  ~resourcesHidden[x]}
      [] pg = "quiz"       -> {x \in {"quiz-container", "results-container"} :
                                  IF x = "quiz-container" THEN ~quizContainerHidden
                                  ELSE ~resultsContainerHidden}
      [] pg = "chat"       -> {}

\* C9: at most one phase section of a multi-step page is visible.
C9_OnePhaseVisible == Cardinality(VisiblePhases(page)) <= 1

\* the interview has moved through both handlers to its third step
C9_Witness ==
    /\ page = "interview"
    /\ VisiblePhases("interview") = {3}
    /\ nsent["feedback"] = 1

\* the phase of the quiz page
QuizPhase ==
    IF ~resultsContainerHidden THEN "Scored"
    ELSE IF ~submitQuizBtnHidden /\ questionsWrapper.kind = "quiz" THEN "Answering"
    ELSE "Loading"

\* C10: the quiz page moves Loading -> Answering -> Scored only; Answering is
\* entered by a successful response that carries the quiz field, Scored from
\* Answering by a submit; Scored is final, with its results; a failed load
\* stays in Loading.
C10_QuizPhases ==
    [][ /\ (QuizPhase' # QuizPhase) =>
               << QuizPhase, QuizPhase' >> \in { << "Loading", "Answering" >>,
                                                 << "Answering", "Scored" >> }
        /\ (QuizPhase = "Loading" /\ QuizPhase' = "Answering") =>
               /\ lastEvent'.type = "resolve"
               /\ lastEvent'.h = "quiz"
               /\ lastEvent'.resp.status = "ok"
               /\ lastEvent'.resp.has
        /\ (QuizPhase = "Answering" /\ QuizPhase' = "Scored") =>
               lastEvent'.h = "submit"
        /\ QuizPhase = "Scored" => resultsContainer' = resultsContainer
        /\ questionsWrapper.kind = "error" =>
               (questionsWrapper'.kind = "error" /\ QuizPhase' = "Loading")
      ]_vars

\* a quiz that was loaded, answered and scored
C10_Witness ==
    /\ QuizPhase = "Scored"
    /\ resultsContainer.score = 2
    /\ resultsContainer.totalQuestions = 2


\* the card the page shows for roadmap item x
CardOf(x) == [week |-> x.week, topics |-> x.topics]

\* the last step resolved a roadmap request with a successful response whose
\* roadmap field is v
RoadmapRendered(v) ==
    /\ lastEvent.type = "resolve"
    /\ lastEvent.h = "roadmap"
    /\ lastEvent.resp.status = "ok"
    /\ lastEvent.resp.json
    /\ lastEvent.resp.has
    /\ lastEvent.resp.val = v

\* C11: a successful response whose roadmap field is the single object X is
\* rendered as the response whose roadmap field is the array [X]: one card,
\* with X's week and topics.
C11_ObjectAsOneElementArray ==
    \A x \in CardPool :
        (\/ RoadmapRendered([array |-> FALSE, items |-> << >>, obj |-> x])
         \/ RoadmapRendered([array |-> TRUE, items |-> << x >>, obj |-> << >>]))
        => roadmapResultDiv = [kind |-> "cards", cards |-> << CardOf(x) >>]

\* a roadmap that came as a single object and is shown as one card
C11_Witness ==
    /\ page = "onboarding"
    /\ lastEvent.type = "resolve"
    /\ lastEvent.resp.status = "ok"
    /\ lastEvent.resp.has
    /\ ~lastEvent.resp.val.array
    /\ roadmapResultDiv.kind = "cards"
    /\ Len(roadmapResultDiv.cards) = 1
    /\ roadmapResultDiv.cards[1].week = lastEvent.resp.val.obj.week


\* the region of the page that handler h renders into
RegionOf(h) ==
    CASE h = "quiz"     -> questionsWrapper
      [] h = "chat"     -> chatBox
      [] h = "question" -> questionResultDiv
      [] h = "feedback" -> feedbackResultDiv
      [] h = "roadmap"  -> roadmapResultDiv

\* a step in which the action of handler h ran, validated or not
ActionRan(h) ==
    /\ lastEvent' # lastEvent
    /\ lastEvent'.h = h
    /\ lastEvent'.type \in {"trigger", "noop"}

\* a step in which the action of handler h ran and passed its validation
ActionStarted(h) ==
    /\ lastEvent' # lastEvent
    /\ lastEvent'.h = h
    /\ lastEvent'.type = "trigger"

\* a step in which a request of handler h resolved
Resolved(h) ==
    /\ lastEvent' # lastEvent
    /\ lastEvent'.h = h
    /\ lastEvent'.type = "resolve"

\* the step issues exactly one request, of handler h
SendsOneRequest(h) ==
    /\ nsent' = [nsent EXCEPT ![h] = nsent[h] + 1]
    /\ net \subseteq net'
    /\ Cardinality(net' \ net) = 1
    /\ \A req \in net' \ net : req.h = h

\* the region of handler h shows the rendering of response resp
ShowsResultOf(h, resp) ==
    CASE h = "quiz"     -> questionsWrapper.kind = "quiz"
      [] h = "chat"     -> chatBox[Len(chatBox)].text = resp.val
      [] h = "question" -> questionResultDiv = Interpolate(Field(resp))
      [] h = "feedback" -> feedbackResultDiv = Interpolate(Field(resp))
      [] h = "roadmap"  -> roadmapResultDiv.kind = "cards"

\* the region of handler h shows the outcome of the response that just resolved
ShowsOutcome(h) == ShowsFixedError(h) \/ ShowsResultOf(h, lastEvent.resp)

\* the step takes one request of handler h off the network and writes its
\* region once: the result or the fixed error, in place (the chat: into one
\* bubble, the last, with no bubble appended); no other region changes
WritesOnce(h) ==
    /\ net' \subseteq net
    /\ Cardinality(net \ net') = 1
    /\ \A req \in net \ net' : req.h = h /\ req.id = lastEvent'.id
    /\ nsent' = nsent
    /\ ShowsOutcome(h)'
    /\ \A g \in Handlers \ {h} : RegionOf(g)' = RegionOf(g)
    /\ h = "chat" => /\ Len(chatBox') = Len(chatBox)
                     /\ \A i \in 1..(Len(chatBox) - 1) : chatBox'[i] = chatBox[i]
                     /\ chatBox'[Len(chatBox)].sender = chatBox[Len(chatBox)].sender

\* requests are issued by triggers alone, and regions that are no chat
\* transcript change on a trigger (to pending) or a resolution alone
OnlyTriggersSend ==
    /\ (nsent' # nsent \/ ~(net' \subseteq net)) =>
           \E h \in Handlers : ActionStarted(h)
    /\ ((\A h \in Handlers : ~ActionStarted(h) /\ ~Resolved(h)) =>
           \A h \in Handlers : RegionOf(h)' = RegionOf(h))

\* C12 as stated: every trigger of an action, the chat's sendMessage on any
\* input included, sends exactly one request; its resolution writes the
\* render target exactly once; nothing but a trigger sends a request.
C12_EveryTriggerSendsOne ==
    [][ /\ \A h \in Handlers : ActionRan(h) => SendsOneRequest(h)
        /\ \A h \in Handlers : Resolved(h) => WritesOnce(h)
        /\ OnlyTriggersSend
      ]_vars

\* C12, amended: every trigger that passes the handler's validation sends
\* exactly one request (sendMessage on a blank input sends none); its
\* resolution writes the render target exactly once; nothing but a trigger
\* sends a request: a failure is followed by no retry.
C12_ValidTriggerSendsOne ==
    [][ /\ \A h \in Handlers : ActionStarted(h) => SendsOneRequest(h)
        /\ \A h \in Handlers : Resolved(h) => WritesOnce(h)
        /\ OnlyTriggersSend
      ]_vars

\* the one question request failed with a non-success status: the error is
\* shown and nothing is in flight
C12_Witness ==
    /\ page = "interview"
    /\ lastEvent.type = "resolve"
    /\ lastEvent.h = "question"
    /\ lastEvent.resp.status = "error"
    /\ questionResultDiv = QuestionError
    /\ nsent["question"] = 1
    /\ net = {}


\* the options of the rendered quiz, as (question, option) index pairs
RenderedOptions ==
    UNION { {<< i, j >> : j \in DOMAIN questionsWrapper.attrs[i]} :
                i \in DOMAIN questionsWrapper.attrs }

\* C13: the text displayQuiz places inside the double-quoted value attribute
\* of an option holds no raw double quote, so the attribute ends at its own
\* closing quote: the value read back is as long as the option.
C13_NoRawQuoteInAttribute ==
    \A ij \in RenderedOptions :
        LET attr   == questionsWrapper.attrs[ij[1]][ij[2]]
            option == quizData.items[ij[1]].options[ij[2]]
        IN  /\ \A k \in DOMAIN attr : attr[k] # Quote
            /\ Len(questionsWrapper.radios[ij[1]][ij[2]]) = Len(option)

\* a rendered option that holds two double quotes
C13_Witness ==
    /\ questionsWrapper.kind = "quiz"
    /\ \E ij \in RenderedOptions :
          /\ quizData.items[ij[1]].options[ij[2]] = << Quote, "a", Quote >>
          /\ questionsWrapper.attrs[ij[1]][ij[2]] = << QuotEntity, "a", QuotEntity >>


\* C14: the reply or error text of a chat request is written into the
\* placeholder bubble that the same sendMessage call appended, and into no
\* other bubble.
C14_ReplyInOwnBubble ==
    [][\A req \in net :
          (req.h = "chat" /\ req \notin net') =>
              /\ chatBox'[req.bubble].text = ChatContent(lastEvent'.resp)
              /\ \A i \in DOMAIN chatBox : i # req.bubble => chatBox'[i] = chatBox[i]
      ]_vars


\* C15: when the feedback request is sent, its question field is the text a
\* successful question fetch returned and the question block shows: never
\* empty, undefined or stale (no question request in flight, none failed).
C15_FeedbackCarriesShownQuestion ==
    [][ActionStarted("feedback") =>
          \A req \in net' \ net :
              /\ req.body.question.defined
              /\ req.body.question.str # Empty
              /\ req.body.question.str = questionResultDiv
              /\ InFlight("question") = {}
      ]_vars


\* a render target still shows its loading text
ShowsLoadingText(h) ==
    CASE h = "chat"     -> \E i \in DOMAIN chatBox :
                               chatBox[i].sender = "ai" /\ chatBox[i].text = Thinking
      [] h = "question" -> questionResultDiv = QuestionLoading
      [] h = "feedback" -> feedbackResultDiv = FeedbackLoading
      [] h = "roadmap"  -> roadmapResultDiv = RoadmapLoading
      [] h = "quiz"     -> FALSE

\* C16: once every issued request has resolved, no render target that was
\* put into its loading state still shows the loading text: each shows a
\* result or a fixed error message.
C16_NoLoadingOnceResolved ==
    net = {} => \A h \in Handlers : ~ShowsLoadingText(h)

=============================================================================
